---- MODULE Spec2Model ----
(***************************************************************************)
(* Keyframe-relative registration pipeline of laser_scan_matcher.          *)
(*                                                                         *)
(* Rigid transforms are planar: a translation on the integer grid and a    *)
(* heading counted in quarter turns (0..3), so composition and inversion   *)
(* are exact.  Thresholds are expressed in the same units (grid steps and  *)
(* quarter turns).  An orientation sample carries its heading and a        *)
(* roll/pitch token; only the heading enters the planar composition.       *)
(*                                                                         *)
(* Spec        : every callback runs to completion (single-threaded        *)
(*               spinner); wide choice of parameters and inputs.           *)
(* SpecThreads : the motion-cue callbacks and the reading callback run on  *)
(*               different threads and interleave statement by statement.  *)
(* FairSpec    : the runs without a prediction source, readings keep       *)
(*               arriving.                                                 *)
(* SpecOdom    : odometry as the only prediction source, with the history  *)
(*               of the samples used as baseline.                          *)
(* SpecOdomTf  : the same with the frame lookup that overrides odometry,   *)
(*               the first sample and the composed deltas recorded.        *)
(* SpecCov     : the runs that publish the pose with its covariance.       *)
(* SpecBuilders: laserScanToLDP and PointCloudToLDP applied to bounded     *)
(*               readings; doubles are grid values or NaN.                 *)
(***************************************************************************)
EXTENDS Integers, FiniteSets, Sequences, TLC

\* ------------------------------------------------------------------ bounds

\* Readings delivered in one run.
MaxReadings == 3

\* Largest gap between the stamps of two consecutive readings.
MaxGap == 1

\* --------------------------------------------------- planar rigid transforms

Identity == [x |-> 0, y |-> 0, a |-> 0]

Tf(px, py, pa) == [x |-> px, y |-> py, a |-> pa % 4]

\* tf::Matrix3x3 applied to a vector, for a rotation of q quarter turns
RotX(q, vx, vy) == CASE q % 4 = 0 -> vx [] q % 4 = 1 -> -vy [] q % 4 = 2 -> -vx [] OTHER -> vy
RotY(q, vx, vy) == CASE q % 4 = 0 -> vy [] q % 4 = 1 -> vx [] q % 4 = 2 -> -vy [] OTHER -> -vx

\* tf::Transform::operator*
Mul(A, B) ==
  [x |-> A.x + RotX(A.a, B.x, B.y),
   y |-> A.y + RotY(A.a, B.x, B.y),
   a |-> (A.a + B.a) % 4]

\* tf::Transform::inverse
Inverse(A) ==
  [x |-> RotX(4 - A.a, -A.x, -A.y),
   y |-> RotY(4 - A.a, -A.x, -A.y),
   a |-> (4 - A.a) % 4]

\* tf::getYaw: the heading in (-2, 2] quarter turns
GetYaw(T) == IF T.a % 4 = 3 THEN -1 ELSE T.a % 4

Fabs(v) == IF v < 0 THEN -v ELSE v

\* 2x2 matrices (Eigen::Matrix2f) as <<row, row>>: product and transpose
MatMul(A, B) ==
  <<<<A[1][1] * B[1][1] + A[1][2] * B[2][1], A[1][1] * B[1][2] + A[1][2] * B[2][2]>>,
    <<A[2][1] * B[1][1] + A[2][2] * B[2][1], A[2][1] * B[1][2] + A[2][2] * B[2][2]>>>>

Transpose(A) == <<<<A[1][1], A[2][1]>>, <<A[1][2], A[2][2]>>>>

\* cosine and sine of q quarter turns
Cos(q) == CASE q % 4 = 0 -> 1 [] q % 4 = 2 -> -1 [] OTHER -> 0
Sin(q) == CASE q % 4 = 1 -> 1 [] q % 4 = 3 -> -1 [] OTHER -> 0

\* Eigen::Rotation2Df(q).toRotationMatrix()
Rotation2D(q) == <<<<Cos(q), -Sin(q)>>, <<Sin(q), Cos(q)>>>>

\* createTfFromXYTheta: origin (x, y, 0), rotation setRPY(0, 0, theta)
CreateTfFromXYTheta(px, py, theta) == [x |-> px, y |-> py, a |-> theta % 4]

\* tf::poseMsgToTF on the pose of an odometry message
PoseMsgToTF(m) == [x |-> m.position[1], y |-> m.position[2], a |-> m.orientation % 4]

\* tf::quaternionMsgToTF followed by the heading of the quaternion
QuaternionMsgToTF(q) == q.yaw % 4

\* ------------------------------------------------------ inputs of the model

\* Static base<-laser transforms the frame-lookup service may hold.
StaticTfs == {Tf(1, 0, 1), Tf(0, 0, 0)}
OneStaticTf == {Tf(1, 0, 1)}

\* Outcomes of a frame-lookup query: an exception, or a transform.
NotAsked == [asked |-> FALSE, ok |-> FALSE, t |-> Identity]
LookupFailed == [asked |-> TRUE, ok |-> FALSE, t |-> Identity]
Found(t) == [asked |-> TRUE, ok |-> TRUE, t |-> t]
TfResults == {LookupFailed, Found(Tf(2, 0, 3))}

\* Outcomes of sm_icp: output_.valid and output_.x (laser frame).  A failed
\* match leaves no meaningful x behind.
IcpFailed == [valid |-> FALSE, x |-> <<1, 1, 2>>]
IcpResults ==
  {IcpFailed} \cup
  {[valid |-> TRUE, x |-> v] :
     v \in {<<0, 0, 0>>, <<1, 0, 0>>, <<1, 1, 0>>, <<0, 0, 1>>, <<0, 0, 2>>}}
FewIcpResults == {IcpFailed, [valid |-> TRUE, x |-> <<1, 1, 0>>]}

\* Outcomes of sm_icp when it computes the covariance: output_.cov_x_m is the
\* 3x3 covariance of x (laser frame of the keyframe), in units of 1e-9.
SolverCov == <<<<2, 1, 0>>, <<1, 3, 0>>, <<0, 0, 5>>>>
NoSolverCov == <<<<0, 0, 0>>, <<0, 0, 0>>, <<0, 0, 0>>>>
CovIcpResults ==
  {[valid |-> FALSE, x |-> <<1, 1, 2>>, cov_x_m |-> NoSolverCov]} \cup
  {[valid |-> TRUE, x |-> v, cov_x_m |-> SolverCov] :
     v \in {<<0, 0, 0>>, <<1, 0, 1>>, <<0, 1, 0>>}}

\* Messages of the motion-cue topics.
OdomMsgs == {[position |-> <<1, 0>>, orientation |-> 0],
             [position |-> <<1, 1>>, orientation |-> 1]}
ImuMsgs == {[yaw |-> 1, rp |-> 0], [yaw |-> 3, rp |-> 1]}
VelMsgs == {[linear |-> <<1, 0>>, angular |-> 1]}

\* Default-constructed messages (members before the first callback).
NoOdomMsg == [position |-> <<0, 0>>, orientation |-> 0]
NoImuMsg == [yaw |-> 0, rp |-> 0]
NoVelMsg == [linear |-> <<0, 0>>, angular |-> 0]

\* Output topics, and the sets of them a run may enable (publish_* flags).
Topics == {"pose2D", "pose_stamped", "pose_with_covariance",
           "pose_with_covariance_stamped", "tf"}
PublishSets == {{"pose2D", "tf"}}

\* Keyframe thresholds explored: <<kf_dist_linear_, kf_dist_angular_>>.
KfPairs == {<<1, 1>>, <<0, 1>>, <<1, 0>>, <<1, -1>>}

\* initParams: the members computed from the parameters of a run.
InitParams(uv, uo, ui, ut, rp, kf, pb) ==
  [use_vel_ |-> uv, use_odom_ |-> uo, use_imu_ |-> ui, use_tf_ |-> ut,
   add_imu_roll_pitch_ |-> rp,
   kf_dist_linear_ |-> kf[1], kf_dist_angular_ |-> kf[2],
   kf_dist_linear_sq_ |-> kf[1] * kf[1],
   publish_ |-> pb,
   position_covariance_ |-> <<1, 1, 1>>,
   orientation_covariance_ |-> <<1, 1, 1>>,
   do_compute_covariance |-> FALSE]

\* Runs explored.  The keyframe test reads the thresholds and the measured
\* offset only, the prediction reads the source flags and the cues only, so
\* the runs come in two families: every threshold pair with every solver
\* outcome and no prediction source, and every combination of prediction
\* sources with one threshold pair and a failing or a promoting match.
KeyframeRuns ==
  {[cfg |-> InitParams(FALSE, FALSE, FALSE, FALSE, FALSE, kf, pb),
    scene |-> [icp |-> IcpResults, static |-> StaticTfs]] :
     kf \in KfPairs, pb \in PublishSets}

FusionRuns ==
  {[cfg |-> InitParams(uv, uo, ui, ut, rp, <<1, 1>>, pb),
    scene |-> [icp |-> FewIcpResults, static |-> OneStaticTf]] :
     uv \in BOOLEAN, uo \in BOOLEAN, ui \in BOOLEAN, ut \in BOOLEAN,
     rp \in BOOLEAN, pb \in PublishSets}

\* Runs that publish the pose with its covariance, the solver computing the
\* covariance or not.
CovRuns ==
  {[cfg |-> [InitParams(FALSE, FALSE, FALSE, FALSE, FALSE, <<0, 1>>,
                        {"pose_with_covariance", "pose_with_covariance_stamped"})
               EXCEPT !.do_compute_covariance = dc],
    scene |-> [icp |-> IF dc THEN CovIcpResults ELSE FewIcpResults,
               static |-> StaticTfs]] :
     dc \in BOOLEAN}

Runs == KeyframeRuns \cup {r \in FusionRuns : r.cfg.add_imu_roll_pitch_ => r.cfg.use_imu_}

\* Runs explored with interleaved callbacks: the fused lookup enabled, and
\* one cue source at a time beside it.
ThreadRuns ==
  {r \in FusionRuns :
     /\ r.cfg.use_tf_
     /\ r.cfg.add_imu_roll_pitch_ = r.cfg.use_imu_
     /\ Cardinality({f \in {"vel", "odom", "imu"} :
                       \/ f = "vel" /\ r.cfg.use_vel_
                       \/ f = "odom" /\ r.cfg.use_odom_
                       \/ f = "imu" /\ r.cfg.use_imu_}) = 1}

\* ------------------------------------------------------------------- state

VARIABLES
  cfg,                        \* parameters read by initParams
  scene,                      \* what the solver and the lookup service can answer
  tf_static,                  \* frame-lookup service: the static base<-laser transform
  clock,                      \* stamp of the latest reading delivered
  nreadings,                  \* readings delivered so far
  initialized_,
  base_from_laser_,
  laser_from_base_,
  last_base_in_fixed_,
  keyframe_base_in_fixed_,
  last_icp_time_,
  received_imu_,
  received_odom_,
  received_vel_,
  latest_imu_msg_,
  latest_odom_msg_,
  latest_vel_msg_,
  last_used_odom_pose_,
  last_used_imu_orientation_,
  prev_ldp_scan_,             \* handle of the reference point set (0: none)
  input_,                     \* sm_params: laser_ref, laser_sens, first_guess
  output_,                    \* sm_result: valid, x
  ld_alive,                   \* point sets allocated and not freed
  ld_count,                   \* point sets allocated so far
  static_queries,             \* static lookups issued so far
  cycle,                      \* the reading callback in progress or last run
  outbox,                     \* messages published by that callback
  mutex_,                     \* owner of mutex_ ("none" when free)
  pc,                         \* location of each callback thread
  reading,                    \* message handed to a point-set builder
  built,                      \* what the builder handed back
  odom_hist                   \* history: the uses of odometry samples as baseline

envVars == <<cfg, scene, tf_static, clock, nreadings>>
cueVars == <<received_imu_, received_odom_, received_vel_,
             latest_imu_msg_, latest_odom_msg_, latest_vel_msg_>>
usedVars == <<last_used_odom_pose_, last_used_imu_orientation_>>
staticVars == <<initialized_, base_from_laser_, laser_from_base_, static_queries>>
poseVars == <<last_base_in_fixed_, keyframe_base_in_fixed_, last_icp_time_>>
ldVars == <<prev_ldp_scan_, input_, output_, ld_alive, ld_count>>
obsVars == <<cycle, outbox>>
thrVars == <<mutex_, pc>>
bldVars == <<reading, built>>

vars == <<envVars, cueVars, usedVars, staticVars, poseVars, ldVars, obsVars, thrVars,
          bldVars, odom_hist>>

\* ----------------------------------------------------------- the callbacks

\* (mutant) the static transform is looked up on every reading
NeedsInitAlways(initialized) == TRUE

\* scanCallback / cloudCallback: the test `if (!initialized_)`
NeedsInit(initialized) == ~initialized

\* (mutant) no early return after a failed getBaseLaserTransform
ScanCallbackInitNoReturn(stamp) ==
  [skip |-> FALSE, initialized |-> TRUE,
   bfl |-> tf_static.t, lfb |-> Inverse(tf_static.t),
   queries |-> static_queries + 1,
   prev |-> ld_count + 1, lit |-> stamp,
   alive |-> ld_alive \cup {ld_count + 1, ld_count + 2},
   count |-> ld_count + 2, curr |-> ld_count + 2]

\* (mutant) the reading that resolves the static transform is not processed
ScanCallbackInitDropsFirst(stamp) ==
  IF ~initialized_
  THEN [skip |-> TRUE, initialized |-> tf_static.ok,
        bfl |-> tf_static.t, lfb |-> Inverse(tf_static.t),
        queries |-> static_queries + 1,
        prev |-> IF tf_static.ok THEN ld_count + 1 ELSE prev_ldp_scan_,
        lit |-> IF tf_static.ok THEN stamp ELSE last_icp_time_,
        alive |-> IF tf_static.ok THEN ld_alive \cup {ld_count + 1} ELSE ld_alive,
        count |-> IF tf_static.ok THEN ld_count + 1 ELSE ld_count, curr |-> 0]
  ELSE [skip |-> FALSE, initialized |-> initialized_,
        bfl |-> base_from_laser_, lfb |-> laser_from_base_,
        queries |-> static_queries,
        prev |-> prev_ldp_scan_, lit |-> last_icp_time_,
        alive |-> ld_alive \cup {ld_count + 1},
        count |-> ld_count + 1, curr |-> ld_count + 1]

\* (mutant) the initializing callback leaves last_icp_time_ as constructed
ScanCallbackInitStaleTime(stamp) ==
  LET need == NeedsInit(initialized_)
      queries == IF need THEN static_queries + 1 ELSE static_queries
  IN  IF need /\ ~tf_static.ok
      THEN [skip |-> TRUE, initialized |-> initialized_,
            bfl |-> base_from_laser_, lfb |-> laser_from_base_,
            queries |-> queries,
            prev |-> prev_ldp_scan_, lit |-> last_icp_time_,
            alive |-> ld_alive, count |-> ld_count, curr |-> 0]
      ELSE IF need
      THEN [skip |-> FALSE, initialized |-> TRUE,
            bfl |-> tf_static.t, lfb |-> Inverse(tf_static.t),
            queries |-> queries,
            prev |-> ld_count + 1, lit |-> last_icp_time_,
            alive |-> ld_alive \cup {ld_count + 1, ld_count + 2},
            count |-> ld_count + 2, curr |-> ld_count + 2]
      ELSE [skip |-> FALSE, initialized |-> initialized_,
            bfl |-> base_from_laser_, lfb |-> laser_from_base_,
            queries |-> queries,
            prev |-> prev_ldp_scan_, lit |-> last_icp_time_,
            alive |-> ld_alive \cup {ld_count + 1},
            count |-> ld_count + 1, curr |-> ld_count + 1]

\* scanCallback / cloudCallback up to the call of processScan.  The result
\* holds the members as they are when processScan is entered; skip is the
\* early return after a failed getBaseLaserTransform.  ld_alloc_new hands out
\* the next unused handle.
ScanCallbackInit(stamp) ==
  LET need == NeedsInit(initialized_)
      queries == IF need THEN static_queries + 1 ELSE static_queries
  IN  IF need /\ ~tf_static.ok
      THEN [skip |-> TRUE, initialized |-> initialized_,
            bfl |-> base_from_laser_, lfb |-> laser_from_base_,
            queries |-> queries,
            prev |-> prev_ldp_scan_, lit |-> last_icp_time_,
            alive |-> ld_alive, count |-> ld_count, curr |-> 0]
      ELSE IF need
      THEN [skip |-> FALSE, initialized |-> TRUE,
            bfl |-> tf_static.t, lfb |-> Inverse(tf_static.t),
            queries |-> queries,
            prev |-> ld_count + 1, lit |-> stamp,
            alive |-> ld_alive \cup {ld_count + 1, ld_count + 2},
            count |-> ld_count + 2, curr |-> ld_count + 2]
      ELSE [skip |-> FALSE, initialized |-> initialized_,
            bfl |-> base_from_laser_, lfb |-> laser_from_base_,
            queries |-> queries,
            prev |-> prev_ldp_scan_, lit |-> last_icp_time_,
            alive |-> ld_alive \cup {ld_count + 1},
            count |-> ld_count + 1, curr |-> ld_count + 1]

\* getPrediction, `if (use_vel_)`: dt times the latest velocity
PredVel(p, dt) ==
  IF cfg.use_vel_
  THEN CreateTfFromXYTheta(dt * latest_vel_msg_.linear[1],
                           dt * latest_vel_msg_.linear[2],
                           dt * latest_vel_msg_.angular)
  ELSE p

\* getPrediction, `if (use_odom_ && received_odom_)`
UseOdom == cfg.use_odom_ /\ received_odom_

\* (mutant) the baseline is not advanced to the latest sample
NextUsedOdomKept == last_used_odom_pose_

\* (mutant) the odometry delta is composed with the velocity estimate
PredOdomComposed(p) ==
  IF UseOdom
  THEN Mul(p, Mul(Inverse(last_used_odom_pose_), PoseMsgToTF(latest_odom_msg_)))
  ELSE p

PredOdom(p) ==
  IF UseOdom
  THEN Mul(Inverse(last_used_odom_pose_), PoseMsgToTF(latest_odom_msg_))
  ELSE p
NextUsedOdom == IF UseOdom THEN PoseMsgToTF(latest_odom_msg_) ELSE last_used_odom_pose_

\* getPrediction, `if (use_imu_ && received_imu_)`: setRotation only
UseImu == cfg.use_imu_ /\ received_imu_
PredImu(p) ==
  IF UseImu
  THEN [p EXCEPT !.a = (QuaternionMsgToTF(latest_imu_msg_) + 4
                          - last_used_imu_orientation_) % 4]
  ELSE p
NextUsedImu ==
  IF UseImu THEN QuaternionMsgToTF(latest_imu_msg_) ELSE last_used_imu_orientation_

\* (mutant) the lookup result is assigned whether or not the lookup threw
PredTfAssignAlways(p, lookup) == IF cfg.use_tf_ THEN lookup.t ELSE p

\* getPrediction, `if (use_tf_)`: the assignment is skipped by the exception
PredTf(p, lookup) == IF cfg.use_tf_ /\ lookup.ok THEN lookup.t ELSE p

\* getPrediction: the estimate built from the three cue steps
PredSources(dt) == PredImu(PredOdom(PredVel(Identity, dt)))

\* (mutant) the imu step runs after the lookup step
GetPredictionImuLast(dt, lookup) == PredImu(PredTf(PredOdom(PredVel(Identity, dt)), lookup))

\* getPrediction: the returned transform
GetPrediction(dt, lookup) == PredTf(PredSources(dt), lookup)

\* processScan: first_guess from the predicted offset
FirstGuess(pred, bfl, lfb) ==
  LET pred_base_in_fixed == Mul(last_base_in_fixed_, pred)
      pred_keyframe_base_offset == Mul(Inverse(keyframe_base_in_fixed_), pred_base_in_fixed)
      pred_keyframe_laser_offset == Mul(Mul(lfb, pred_keyframe_base_offset), bfl)
  IN  <<pred_keyframe_laser_offset.x, pred_keyframe_laser_offset.y,
        GetYaw(pred_keyframe_laser_offset)>>

\* (mutant) the solver's offset is used as it is, in the laser frame
MeasKeyframeLaserOffset(sol, bfl, lfb) ==
  IF sol.valid
  THEN CreateTfFromXYTheta(sol.x[1], sol.x[2], sol.x[3])
  ELSE Identity

\* processScan: meas_keyframe_base_offset, identity when the match failed
MeasKeyframeBaseOffset(sol, bfl, lfb) ==
  IF sol.valid
  THEN Mul(Mul(bfl, CreateTfFromXYTheta(sol.x[1], sol.x[2], sol.x[3])), lfb)
  ELSE Identity

\* processScan: current_transform, roll and pitch taken from the imu
CurrentTransform(base_in_fixed) ==
  [x |-> base_in_fixed.x, y |-> base_in_fixed.y, a |-> base_in_fixed.a,
   rp |-> IF cfg.add_imu_roll_pitch_ /\ cfg.use_imu_ /\ received_imu_
          THEN latest_imu_msg_.rp ELSE 0]

\* (mutant) the messages are published outside the `if (output_.valid)` branch
PublishAlways(sol, current_transform, time) ==
  {[topic |-> t, pose |-> current_transform, stamp |-> time] : t \in cfg.publish_}

\* processScan: the messages of the `if (output_.valid)` branch
Publish(sol, current_transform, time) ==
  IF sol.valid
  THEN {[topic |-> t, pose |-> current_transform, stamp |-> time] : t \in cfg.publish_}
  ELSE {}

\* getLaserRotation: the planar rotation by the heading of
\* odom_pose * laser_from_base_
GetLaserRotation(odom_pose, lfb) == Rotation2D(GetYaw(Mul(odom_pose, lfb)))

\* processScan: xy_cov and yaw_cov, from the solver's covariance rotated with
\* the keyframe pose, or from the configured diagonal
PoseCovariance(sol, lfb) ==
  IF cfg.do_compute_covariance
  THEN LET rotation == GetLaserRotation(keyframe_base_in_fixed_, lfb)
           xy_cov == <<<<sol.cov_x_m[1][1], sol.cov_x_m[1][2]>>,
                       <<sol.cov_x_m[2][1], sol.cov_x_m[2][2]>>>>
       IN  [xy |-> MatMul(MatMul(rotation, xy_cov), Transpose(rotation)),
            yaw |-> sol.cov_x_m[3][3]]
  ELSE [xy |-> <<<<cfg.position_covariance_[1], 0>>,
                 <<0, cfg.position_covariance_[2]>>>>,
        yaw |-> cfg.orientation_covariance_[3]]

\* The covariance a message does not carry.
NoCovariance == [xy |-> <<<<0, 0>>, <<0, 0>>>>, yaw |-> 0]

\* processScan: the covariance field of the pose_with_covariance messages
WithCovariance(msgs, cov) ==
  {[topic |-> m.topic, pose |-> m.pose, stamp |-> m.stamp,
    cov |-> IF m.topic \in {"pose_with_covariance", "pose_with_covariance_stamped"}
            THEN cov ELSE NoCovariance] : m \in msgs}

\* (mutant) the linear test is left out
NewKeyframeNeededAngularOnly(d) == Fabs(GetYaw(d)) > cfg.kf_dist_angular_

\* (mutant) the comparisons are not strict
NewKeyframeNeededGe(d) ==
  \/ Fabs(GetYaw(d)) >= cfg.kf_dist_angular_
  \/ d.x * d.x + d.y * d.y >= cfg.kf_dist_linear_sq_

\* newKeyframeNeeded
NewKeyframeNeeded(d) ==
  \/ Fabs(GetYaw(d)) > cfg.kf_dist_angular_
  \/ d.x * d.x + d.y * d.y > cfg.kf_dist_linear_sq_

\* (mutant) ld_free releases nothing
LdFreeLeaks(alive, ldp) == alive

\* ld_free: the point set is released
LdFree(alive, ldp) == alive \ {ldp}

\* (mutant) the end of the cycle destroys the reference whether or not the
\* cycle promotes
ProcessScanFreesReference(prev, alive, bfl, lfb, curr, time, pred, sol) ==
  LET meas == MeasKeyframeBaseOffset(sol, bfl, lfb)
      base == IF sol.valid THEN Mul(keyframe_base_in_fixed_, meas)
              ELSE last_base_in_fixed_
      kf == NewKeyframeNeeded(meas)
  IN  [input |-> [laser_ref |-> prev, laser_sens |-> curr,
                  first_guess |-> FirstGuess(pred, bfl, lfb)],
       output |-> sol,
       meas |-> meas,
       last_base |-> base,
       outbox |-> WithCovariance(Publish(sol, CurrentTransform(base), time),
                                 PoseCovariance(sol, lfb)),
       prev |-> IF kf THEN curr ELSE prev,
       keyframe |-> IF kf THEN base ELSE keyframe_base_in_fixed_,
       alive |-> LdFree(alive, prev),
       lit |-> time]

\* (mutant) a promotion installs the current point set but leaves the
\* keyframe pose where it was
ProcessScanKeepsKeyframe(prev, alive, bfl, lfb, curr, time, pred, sol) ==
  LET meas == MeasKeyframeBaseOffset(sol, bfl, lfb)
      base == IF sol.valid THEN Mul(keyframe_base_in_fixed_, meas)
              ELSE last_base_in_fixed_
      kf == NewKeyframeNeeded(meas)
  IN  [input |-> [laser_ref |-> prev, laser_sens |-> curr,
                  first_guess |-> FirstGuess(pred, bfl, lfb)],
       output |-> sol,
       meas |-> meas,
       last_base |-> base,
       outbox |-> WithCovariance(Publish(sol, CurrentTransform(base), time),
                                 PoseCovariance(sol, lfb)),
       prev |-> IF kf THEN curr ELSE prev,
       keyframe |-> keyframe_base_in_fixed_,
       alive |-> IF kf THEN LdFree(alive, prev) ELSE LdFree(alive, curr),
       lit |-> time]

\* processScan from sm_icp to the end: pose update, publication, keyframe
\* decision (ld_free of one of the two point sets), last_icp_time_.
ProcessScan(prev, alive, bfl, lfb, curr, time, pred, sol) ==
  LET meas == MeasKeyframeBaseOffset(sol, bfl, lfb)
      base == IF sol.valid THEN Mul(keyframe_base_in_fixed_, meas)
              ELSE last_base_in_fixed_
      kf == NewKeyframeNeeded(meas)
  IN  [input |-> [laser_ref |-> prev, laser_sens |-> curr,
                  first_guess |-> FirstGuess(pred, bfl, lfb)],
       output |-> sol,
       meas |-> meas,
       last_base |-> base,
       outbox |-> WithCovariance(Publish(sol, CurrentTransform(base), time),
                                 PoseCovariance(sol, lfb)),
       prev |-> IF kf THEN curr ELSE prev,
       keyframe |-> IF kf THEN base ELSE keyframe_base_in_fixed_,
       alive |-> IF kf THEN LdFree(alive, prev) ELSE LdFree(alive, curr),
       lit |-> time]

\* ------------------------------------------------- the point-set builders

\* Samples in one reading.
MaxSamples == 3

\* A double: a value on the integer grid, or NaN.
Num(v) == [nan |-> FALSE, v |-> v]
NaN == [nan |-> TRUE, v |-> 0]

\* is_nan
IsNan(a) == a.nan

\* Arithmetic on doubles: NaN propagates
Minus(a, b) == IF a.nan \/ b.nan THEN NaN ELSE Num(a.v - b.v)
Plus(a, b) == IF a.nan \/ b.nan THEN NaN ELSE Num(a.v + b.v)
Times(a, b) == IF a.nan \/ b.nan THEN NaN ELSE Num(a.v * b.v)

\* Comparisons of doubles: false when an operand is NaN
Gt(a, b) == ~a.nan /\ ~b.nan /\ a.v > b.v
Lt(a, b) == ~a.nan /\ ~b.nan /\ a.v < b.v
Ge(a, b) == ~a.nan /\ ~b.nan /\ a.v >= b.v
Le(a, b) == ~a.nan /\ ~b.nan /\ a.v <= b.v

\* sqrt, on the grid (exact for the points on the axes used below)
Sqrt(a) ==
  IF a.nan THEN NaN
  ELSE Num(CHOOSE r \in 0..a.v : r * r <= a.v /\ (r + 1) * (r + 1) > a.v)

\* atan2 in quarter turns, for points on the axes
Atan2(y, x) ==
  IF y.nan \/ x.nan THEN NaN
  ELSE IF y.v = 0 THEN (IF x.v >= 0 THEN Num(0) ELSE Num(2))
  ELSE IF y.v > 0 THEN Num(1) ELSE Num(-1)

\* Cloud parameters of initParams, in grid steps.
cloud_range_min_ == Num(1)
cloud_range_max_ == Num(3)
cloud_res_ == Num(1)

\* Range readings: ranges below, on, between and over the bounds of the
\* message, and NaN.
RangeValues == {Num(0), Num(1), Num(2), Num(3), NaN}

ScanMsg(ranges) ==
  [ranges |-> ranges, range_min |-> Num(1), range_max |-> Num(3),
   angle_min |-> Num(0), angle_increment |-> Num(1)]

\* All sequences over S of length 0..n.
SeqsUpTo(S, n) == UNION {[1..k -> S] : k \in 0..n}

ScanMsgs == {ScanMsg(r) : r \in SeqsUpTo(RangeValues, MaxSamples)}

\* Cloud samples: the origin, points on the axes at, within and beyond the
\* resolution from each other, a point beyond cloud_range_max_, and samples
\* with a NaN coordinate.
Pt(px, py) == [x |-> px, y |-> py]
FarPoint == Pt(Num(9), Num(0))
CloudPoints ==
  {Pt(Num(0), Num(0)), Pt(Num(1), Num(0)), Pt(Num(2), Num(0)), Pt(Num(3), Num(0)),
   Pt(Num(0), Num(2)), FarPoint, Pt(NaN, Num(0)), Pt(Num(2), NaN)}

Clouds == {[points |-> p] : p \in SeqsUpTo(CloudPoints, MaxSamples)}

\* ld_alloc_new(n): n rays; the allocator of the solver library fills valid
\* with 0, readings and theta with NaN and cluster with -1.
LdAllocNew(n) ==
  [nrays |-> n,
   valid |-> [i \in 1..n |-> 0],
   readings |-> [i \in 1..n |-> NaN],
   theta |-> [i \in 1..n |-> NaN],
   cluster |-> [i \in 1..n |-> -1],
   min_theta |-> NaN, max_theta |-> NaN]

\* What a read outside an array can leave in a double.
Garbage == {NaN, Num(7)}

\* (mutant) the bounds of the valid interval are inclusive
InRangeInclusive(r, lo, hi) == Ge(r, lo) /\ Le(r, hi)

\* `r > min && r < max`
InRange(r, lo, hi) == Gt(r, lo) /\ Lt(r, hi)

\* The point set made of the rays 1..n, with its angular bounds.
LdpOf(n, rays, lo, hi) ==
  [nrays |-> n,
   valid |-> [i \in 1..n |-> rays[i].valid],
   readings |-> [i \in 1..n |-> rays[i].readings],
   theta |-> [i \in 1..n |-> rays[i].theta],
   cluster |-> [i \in 1..n |-> rays[i].cluster],
   min_theta |-> lo, max_theta |-> hi]

\* What a builder hands back: the point set, the points kept by the
\* downsampling (cloud input), the warnings logged, whether an access left
\* its array, and whether the process survived it.
Built(ldp, kept, warns, oob, crashed) ==
  [done |-> TRUE, ldp |-> ldp, kept |-> kept, warns |-> warns,
   oob |-> oob, crashed |-> crashed]

NoBuilt ==
  [done |-> FALSE, ldp |-> LdAllocNew(0), kept |-> <<>>, warns |-> 0,
   oob |-> FALSE, crashed |-> FALSE]

\* laserScanToLDP, the body of the loop for sample i (ranges[i - 1] in the
\* code), written over the arrays a of ld_alloc_new
ScanRay(a, msg, i) ==
  LET r == msg.ranges[i]
  IN  IF InRange(r, msg.range_min, msg.range_max)
      THEN [valid |-> 1, readings |-> r,
            theta |-> Plus(msg.angle_min, Times(Num(i - 1), msg.angle_increment)),
            cluster |-> -1]
      ELSE [valid |-> 0, readings |-> Num(-1),
            theta |-> Plus(msg.angle_min, Times(Num(i - 1), msg.angle_increment)),
            cluster |-> -1]

\* laserScanToLDP: the outcomes the call can have.  With no sample,
\* `ldp->theta[0]` and `ldp->theta[n-1]` (n - 1 wraps, n being unsigned) are
\* reads outside the zero-length array: the process dies, or the bounds
\* receive what the reads found.
LaserScanToLDP(msg) ==
  LET n == Len(msg.ranges)
      a == LdAllocNew(n)
      rays == [i \in 1..n |-> ScanRay(a, msg, i)]
  IN  IF n > 0
      THEN {Built(LdpOf(n, rays, rays[1].theta, rays[n].theta), <<>>, 0, FALSE, FALSE)}
      ELSE {Built(a, <<>>, 0, TRUE, TRUE)} \cup
           {Built(LdpOf(n, rays, g, h), <<>>, 0, TRUE, FALSE) : g \in Garbage, h \in Garbage}

\* (mutant) a sample at the resolution from the last kept one is kept
KeepSampleGe(pa, pb) ==
  LET dx == Minus(pa.x, pb.x)
      dy == Minus(pa.y, pb.y)
  IN  Ge(Plus(Times(dx, dx), Times(dy, dy)), Times(cloud_res_, cloud_res_))

\* PointCloudToLDP: `d2 > max_d2`
KeepSample(pa, pb) ==
  LET dx == Minus(pa.x, pb.x)
      dy == Minus(pa.y, pb.y)
  IN  Gt(Plus(Times(dx, dx), Times(dy, dy)), Times(cloud_res_, cloud_res_))

\* PointCloudToLDP: the downsampling loop, cloud_f being the points kept so far
RECURSIVE Downsample(_, _)
Downsample(cloud_f, rest) ==
  IF rest = <<>> THEN cloud_f
  ELSE Downsample(IF KeepSample(cloud_f[Len(cloud_f)], Head(rest))
                  THEN Append(cloud_f, Head(rest)) ELSE cloud_f,
                  Tail(rest))

\* PointCloudToLDP, the body of the second loop for the kept point p at i: the
\* NaN branch logs and writes neither valid[i] nor readings[i]
CloudRay(a, p, i) ==
  IF IsNan(p.x) \/ IsNan(p.y)
  THEN [valid |-> a.valid[i], readings |-> a.readings[i],
        theta |-> Atan2(p.y, p.x), cluster |-> -1]
  ELSE LET r == Sqrt(Plus(Times(p.x, p.x), Times(p.y, p.y)))
       IN  IF InRange(r, cloud_range_min_, cloud_range_max_)
           THEN [valid |-> 1, readings |-> r, theta |-> Atan2(p.y, p.x), cluster |-> -1]
           ELSE [valid |-> 0, readings |-> Num(-1), theta |-> Atan2(p.y, p.x),
                 cluster |-> -1]

\* PointCloudToLDP from line 687 on, for the kept points cloud_f
CloudToRays(cloud_f, oob) ==
  LET n == Len(cloud_f)
      a == LdAllocNew(n)
      rays == [i \in 1..n |-> CloudRay(a, cloud_f[i], i)]
      warns == Cardinality({i \in 1..n : IsNan(cloud_f[i].x) \/ IsNan(cloud_f[i].y)})
  IN  Built(LdpOf(n, rays, rays[1].theta, rays[n].theta), cloud_f, warns, oob, FALSE)

\* PointCloudToLDP: the outcomes the call can have.  With no point,
\* `cloud->points[0]` is a read outside the vector: the process dies, or
\* what the read found is kept as the first point.
PointCloudToLDP(cloud) ==
  IF Len(cloud.points) > 0
  THEN {CloudToRays(Downsample(<<Head(cloud.points)>>, Tail(cloud.points)), FALSE)}
  ELSE {Built(LdAllocNew(0), <<>>, 0, TRUE, TRUE)} \cup
       {CloudToRays(<<Pt(g, h)>>, TRUE) : g \in Garbage, h \in Garbage}

\* --------------------------------------------------------------- initially

Threads == {"scan", "imu", "odom", "vel"}

NoCycle ==
  [stamp |-> 0, skip |-> FALSE, init |-> FALSE, curr |-> 0, dt |-> 0,
   pred |-> Identity, tf |-> NotAsked, icp |-> FALSE, meas |-> Identity]

\* The constructor: initParams, then the state variables.  The static
\* transforms and last_used_imu_orientation_ are not set by the constructor
\* and are written before their first read.
InitRun(runs) ==
  /\ \E r \in runs : cfg = r.cfg /\ scene = r.scene
  /\ tf_static = [ok |-> FALSE, t |-> Identity]
  /\ clock = 0
  /\ nreadings = 0
  /\ initialized_ = FALSE
  /\ base_from_laser_ = Identity
  /\ laser_from_base_ = Identity
  /\ last_base_in_fixed_ = Identity
  /\ keyframe_base_in_fixed_ = Identity
  /\ last_icp_time_ = 0
  /\ received_imu_ = FALSE
  /\ received_odom_ = FALSE
  /\ received_vel_ = FALSE
  /\ latest_imu_msg_ = NoImuMsg
  /\ latest_odom_msg_ = NoOdomMsg
  /\ latest_vel_msg_ = NoVelMsg
  /\ last_used_odom_pose_ = Identity
  /\ last_used_imu_orientation_ = 0
  /\ prev_ldp_scan_ = 0
  /\ input_ = [laser_ref |-> 0, laser_sens |-> 0, first_guess |-> <<0, 0, 0>>]
  /\ output_ = IcpFailed
  /\ ld_alive = {}
  /\ ld_count = 0
  /\ static_queries = 0
  /\ cycle = NoCycle
  /\ outbox = {}
  /\ mutex_ = "none"
  /\ pc = [t \in Threads |-> "idle"]

\* ------------------------------------------------------------- history

\* Which odometry sample is the baseline.  fresh: latest_odom_msg_ holds a
\* sample received after the one in last_used_odom_pose_; uses: the cycles
\* in which the sample now in last_used_odom_pose_ has been the baseline;
\* most: the largest number of cycles any one sample has been the baseline
\* of.  The history is followed in the runs that switch it on.
HistoryOff == [on |-> FALSE, fresh |-> FALSE, uses |-> 0, most |-> 0,
               first |-> Identity, deltas |-> Identity]
HistoryOn == [HistoryOff EXCEPT !.on = TRUE]
NoHistory == odom_hist = HistoryOff

\* odomCallback: the first sample is also the baseline, a later one is not
OdomSampleStored ==
  IF ~odom_hist.on THEN odom_hist
  ELSE IF ~received_odom_
  THEN [odom_hist EXCEPT !.fresh = FALSE, !.uses = 0,
                         !.first = PoseMsgToTF(latest_odom_msg_')]
  ELSE [odom_hist EXCEPT !.fresh = TRUE]

\* getPrediction: the sample in last_used_odom_pose_ is the baseline of this
\* cycle, and the sample in latest_odom_msg_ the baseline from now on
OdomBaselineUsed ==
  IF ~odom_hist.on \/ ~UseOdom THEN odom_hist
  ELSE [on |-> TRUE, fresh |-> FALSE,
        uses |-> IF odom_hist.fresh THEN 0 ELSE odom_hist.uses + 1,
        most |-> IF odom_hist.uses + 1 > odom_hist.most
                 THEN odom_hist.uses + 1 ELSE odom_hist.most,
        first |-> odom_hist.first,
        deltas |-> Mul(odom_hist.deltas, PredOdom(Identity))]

\* No builder call is followed in the runs of the pipeline.
NoReading == [kind |-> "none", scan |-> ScanMsg(<<>>), cloud |-> [points |-> <<>>]]
NoBuilder == reading = NoReading /\ built = NoBuilt

Init == InitRun(Runs) /\ NoBuilder /\ NoHistory

\* ------------------------------------------------------------- environment

\* The static base<-laser transform becomes available to the lookup service.
StaticTfPublished ==
  /\ ~tf_static.ok
  /\ \E t \in scene.static : tf_static' = [ok |-> TRUE, t |-> t]
  /\ UNCHANGED <<bldVars, odom_hist, cfg, scene, clock, nreadings, cueVars, usedVars, staticVars, poseVars,
                 ldVars, obsVars, thrVars>>

\* Outcomes the fused lookup of getPrediction can have in this run.
Lookups == IF cfg.use_tf_ THEN TfResults ELSE {NotAsked}

\* --------------------------------- callbacks run to completion (Spec)

\* imuCallback
ImuCallback ==
  /\ cfg.use_imu_
  /\ \E m \in ImuMsgs :
       /\ latest_imu_msg_' = m
       /\ last_used_imu_orientation_' =
            IF ~received_imu_ THEN QuaternionMsgToTF(m) ELSE last_used_imu_orientation_
  /\ received_imu_' = TRUE
  /\ UNCHANGED <<bldVars, odom_hist, envVars, received_odom_, received_vel_, latest_odom_msg_,
                 latest_vel_msg_, last_used_odom_pose_, staticVars, poseVars,
                 ldVars, obsVars, thrVars>>

\* odomCallback
OdomCallback ==
  /\ cfg.use_odom_
  /\ \E m \in OdomMsgs :
       /\ latest_odom_msg_' = m
       /\ last_used_odom_pose_' =
            IF ~received_odom_ THEN PoseMsgToTF(m) ELSE last_used_odom_pose_
  /\ received_odom_' = TRUE
  /\ odom_hist' = OdomSampleStored
  /\ UNCHANGED <<bldVars, envVars, received_imu_, received_vel_, latest_imu_msg_,
                 latest_vel_msg_, last_used_imu_orientation_, staticVars, poseVars,
                 ldVars, obsVars, thrVars>>

\* velCallback / velStmpCallback (both store the twist)
VelCallback ==
  /\ cfg.use_vel_
  /\ \E m \in VelMsgs : latest_vel_msg_' = m
  /\ received_vel_' = TRUE
  /\ UNCHANGED <<bldVars, odom_hist, envVars, received_imu_, received_odom_, latest_imu_msg_,
                 latest_odom_msg_, usedVars, staticVars, poseVars,
                 ldVars, obsVars, thrVars>>

\* scanCallback / cloudCallback with processScan, for a reading stamped
\* clock + d, the lookup outcome and the solver outcome being inputs.
ScanCallback ==
  /\ nreadings < MaxReadings
  /\ \E d \in 1..MaxGap, lookup \in Lookups, sol \in scene.icp :
     \E stamp \in {clock + d} :
     \E h \in {ScanCallbackInit(stamp)} :
     \E dt \in {stamp - h.lit} :
     \E pred \in {GetPrediction(dt, lookup)} :
     \E r \in {ProcessScan(h.prev, h.alive, h.bfl, h.lfb, h.curr, stamp, pred, sol)} :
           /\ clock' = stamp
           /\ nreadings' = nreadings + 1
           /\ initialized_' = h.initialized
           /\ base_from_laser_' = h.bfl
           /\ laser_from_base_' = h.lfb
           /\ static_queries' = h.queries
           /\ IF h.skip
              THEN /\ cycle' = [NoCycle EXCEPT !.stamp = stamp, !.skip = TRUE]
                   /\ outbox' = {}
                   /\ UNCHANGED <<usedVars, poseVars, ldVars, odom_hist>>
              ELSE /\ last_used_odom_pose_' = NextUsedOdom
                   /\ odom_hist' = OdomBaselineUsed
                   /\ last_used_imu_orientation_' = NextUsedImu
                   /\ input_' = r.input
                   /\ output_' = r.output
                   /\ last_base_in_fixed_' = r.last_base
                   /\ keyframe_base_in_fixed_' = r.keyframe
                   /\ prev_ldp_scan_' = r.prev
                   /\ ld_alive' = r.alive
                   /\ ld_count' = h.count
                   /\ last_icp_time_' = r.lit
                   /\ outbox' = r.outbox
                   /\ cycle' = [stamp |-> stamp, skip |-> FALSE,
                                init |-> ~initialized_, curr |-> h.curr, dt |-> dt,
                                pred |-> pred, tf |-> lookup, icp |-> TRUE,
                                meas |-> r.meas]
  /\ UNCHANGED <<bldVars, cfg, scene, tf_static, cueVars, thrVars>>

Next ==
  \/ StaticTfPublished
  \/ ImuCallback
  \/ OdomCallback
  \/ VelCallback
  \/ ScanCallback

Spec == Init /\ [][Next]_vars

\* A step that delivers a reading to scanCallback / cloudCallback: the steps
\* that advance nreadings are those of ScanCallback.
ReadingStep == nreadings' = nreadings + 1

\* The runs without a prediction source: no cue callback is subscribed (the
\* static lookup and the initialization read no cue state).
InitNoCues == InitRun(KeyframeRuns) /\ NoBuilder /\ NoHistory

NextNoCues ==
  \/ StaticTfPublished
  \/ ScanCallback

\* Readings keep arriving: a reading that can be delivered is delivered.
FairSpec ==
  InitNoCues /\ [][NextNoCues]_vars /\ WF_nreadings(nreadings < MaxReadings /\ ReadingStep)

\* The runs with odometry as the only prediction source, the uses of its
\* samples followed.
OdomRuns ==
  {r \in FusionRuns :
     /\ r.cfg.use_odom_ /\ ~r.cfg.use_vel_ /\ ~r.cfg.use_imu_ /\ ~r.cfg.use_tf_
     /\ ~r.cfg.add_imu_roll_pitch_}

InitOdom == InitRun(OdomRuns) /\ NoBuilder /\ odom_hist = HistoryOn

NextOdom ==
  \/ StaticTfPublished
  \/ OdomCallback
  \/ ScanCallback

SpecOdom == InitOdom /\ [][NextOdom]_vars

\* The runs with odometry, alone or with the frame lookup that overrides it.
OdomTfRuns ==
  {r \in FusionRuns :
     /\ r.cfg.use_odom_ /\ ~r.cfg.use_vel_ /\ ~r.cfg.use_imu_
     /\ ~r.cfg.add_imu_roll_pitch_}

InitOdomTf == InitRun(OdomTfRuns) /\ NoBuilder /\ odom_hist = HistoryOn

SpecOdomTf == InitOdomTf /\ [][NextOdom]_vars

\* The runs that publish the covariance.
InitCov == InitRun(CovRuns) /\ NoBuilder /\ NoHistory

SpecCov == InitCov /\ [][NextNoCues]_vars

\* ------------------------- callbacks on separate threads (SpecThreads)

\* (mutant) the lock statement acquires the member mutex_ for the callback
ScopedLockHeld(owner, who) == who

\* `boost::mutex::scoped_lock(mutex_);` declares a local lock object named
\* mutex_, bound to no mutex: the member mutex_ is not acquired.  The result
\* is the owner of the member after the statement.
ScopedLock(owner, who) == owner

\* Whether the statement returns: it blocks only if it has to wait for an owner
LockPasses(owner, who) == ScopedLock(owner, who) = owner \/ owner = "none"

\* End of the callback: the local lock releases what it owns
ScopedUnlock(owner, who) == IF owner = who THEN "none" ELSE owner

Goto(t, loc) == pc' = [pc EXCEPT ![t] = loc]

\* imuCallback, statement by statement
T_ImuLock ==
  /\ cfg.use_imu_ /\ pc["imu"] = "idle"
  /\ LockPasses(mutex_, "imu")
  /\ mutex_' = ScopedLock(mutex_, "imu")
  /\ Goto("imu", "write")
  /\ UNCHANGED <<bldVars, odom_hist, envVars, cueVars, usedVars, staticVars, poseVars, ldVars, obsVars>>

T_ImuWrite ==
  /\ pc["imu"] = "write"
  /\ \E m \in ImuMsgs : latest_imu_msg_' = m
  /\ Goto("imu", "first")
  /\ UNCHANGED <<bldVars, odom_hist, envVars, received_imu_, received_odom_, received_vel_,
                 latest_odom_msg_, latest_vel_msg_, usedVars, staticVars,
                 poseVars, ldVars, obsVars, mutex_>>

T_ImuFirst ==
  /\ pc["imu"] = "first"
  /\ last_used_imu_orientation_' =
       IF ~received_imu_ THEN QuaternionMsgToTF(latest_imu_msg_)
       ELSE last_used_imu_orientation_
  /\ received_imu_' = TRUE
  /\ mutex_' = ScopedUnlock(mutex_, "imu")
  /\ Goto("imu", "idle")
  /\ UNCHANGED <<bldVars, odom_hist, envVars, received_odom_, received_vel_, latest_imu_msg_,
                 latest_odom_msg_, latest_vel_msg_, last_used_odom_pose_,
                 staticVars, poseVars, ldVars, obsVars>>

\* odomCallback, statement by statement
T_OdomLock ==
  /\ cfg.use_odom_ /\ pc["odom"] = "idle"
  /\ LockPasses(mutex_, "odom")
  /\ mutex_' = ScopedLock(mutex_, "odom")
  /\ Goto("odom", "write")
  /\ UNCHANGED <<bldVars, odom_hist, envVars, cueVars, usedVars, staticVars, poseVars, ldVars, obsVars>>

T_OdomWrite ==
  /\ pc["odom"] = "write"
  /\ \E m \in OdomMsgs : latest_odom_msg_' = m
  /\ Goto("odom", "first")
  /\ UNCHANGED <<bldVars, odom_hist, envVars, received_imu_, received_odom_, received_vel_,
                 latest_imu_msg_, latest_vel_msg_, usedVars, staticVars,
                 poseVars, ldVars, obsVars, mutex_>>

T_OdomFirst ==
  /\ pc["odom"] = "first"
  /\ last_used_odom_pose_' =
       IF ~received_odom_ THEN PoseMsgToTF(latest_odom_msg_) ELSE last_used_odom_pose_
  /\ received_odom_' = TRUE
  /\ mutex_' = ScopedUnlock(mutex_, "odom")
  /\ Goto("odom", "idle")
  /\ UNCHANGED <<bldVars, odom_hist, envVars, received_imu_, received_vel_, latest_imu_msg_,
                 latest_odom_msg_, latest_vel_msg_, last_used_imu_orientation_,
                 staticVars, poseVars, ldVars, obsVars>>

\* velCallback / velStmpCallback, statement by statement
T_VelLock ==
  /\ cfg.use_vel_ /\ pc["vel"] = "idle"
  /\ LockPasses(mutex_, "vel")
  /\ mutex_' = ScopedLock(mutex_, "vel")
  /\ Goto("vel", "write")
  /\ UNCHANGED <<bldVars, odom_hist, envVars, cueVars, usedVars, staticVars, poseVars, ldVars, obsVars>>

T_VelWrite ==
  /\ pc["vel"] = "write"
  /\ \E m \in VelMsgs : latest_vel_msg_' = m
  /\ Goto("vel", "flag")
  /\ UNCHANGED <<bldVars, odom_hist, envVars, received_imu_, received_odom_, received_vel_,
                 latest_imu_msg_, latest_odom_msg_, usedVars, staticVars,
                 poseVars, ldVars, obsVars, mutex_>>

T_VelFlag ==
  /\ pc["vel"] = "flag"
  /\ received_vel_' = TRUE
  /\ mutex_' = ScopedUnlock(mutex_, "vel")
  /\ Goto("vel", "idle")
  /\ UNCHANGED <<bldVars, odom_hist, envVars, received_imu_, received_odom_, latest_imu_msg_,
                 latest_odom_msg_, latest_vel_msg_, usedVars, staticVars,
                 poseVars, ldVars, obsVars>>

\* (mutant) processScan returns when getPrediction comes back from the lookup
ScanFlowEarlyReturn(loc) ==
  CASE loc = "gp_lock" -> "gp_read"
    [] loc = "gp_read" -> IF cfg.use_tf_ THEN "gp_wait" ELSE "icp"
    [] OTHER -> "idle"

\* processScan: the location that follows loc on the reading thread
ScanFlow(loc) ==
  CASE loc = "gp_lock" -> "gp_read"
    [] loc = "gp_read" -> IF cfg.use_tf_ THEN "gp_wait" ELSE "icp"
    [] loc = "gp_wait" -> "icp"
    [] OTHER -> "idle"

\* scanCallback / cloudCallback up to the call of getPrediction.  The next
\* reading is taken from the queue when the callback has returned.
T_ScanBegin ==
  /\ pc["scan"] = "idle"
  /\ nreadings < MaxReadings
  /\ \E d \in 1..MaxGap :
     \E stamp \in {clock + d} :
     \E h \in {ScanCallbackInit(stamp)} :
       /\ clock' = stamp
       /\ nreadings' = nreadings + 1
       /\ initialized_' = h.initialized
       /\ base_from_laser_' = h.bfl
       /\ laser_from_base_' = h.lfb
       /\ static_queries' = h.queries
       /\ outbox' = {}
       /\ IF h.skip
          THEN /\ cycle' = [NoCycle EXCEPT !.stamp = stamp, !.skip = TRUE]
               /\ UNCHANGED <<ldVars, last_icp_time_, pc>>
          ELSE /\ cycle' = [NoCycle EXCEPT !.stamp = stamp, !.init = ~initialized_,
                                           !.curr = h.curr]
               /\ prev_ldp_scan_' = h.prev
               /\ ld_alive' = h.alive
               /\ ld_count' = h.count
               /\ last_icp_time_' = h.lit
               /\ input_' = [input_ EXCEPT !.laser_ref = h.prev, !.laser_sens = h.curr]
               /\ UNCHANGED output_
               /\ Goto("scan", "gp_lock")
  /\ UNCHANGED <<bldVars, odom_hist, cfg, scene, tf_static, cueVars, usedVars, last_base_in_fixed_,
                 keyframe_base_in_fixed_, mutex_>>

\* getPrediction: the lock statement
T_GpLock ==
  /\ pc["scan"] = "gp_lock"
  /\ LockPasses(mutex_, "scan")
  /\ mutex_' = ScopedLock(mutex_, "scan")
  /\ Goto("scan", ScanFlow("gp_lock"))
  /\ UNCHANGED <<bldVars, odom_hist, envVars, cueVars, usedVars, staticVars, poseVars, ldVars, obsVars>>

\* getPrediction: the velocity, odometry and imu steps; returns when use_tf_ is off
T_GpRead ==
  /\ pc["scan"] = "gp_read"
  /\ \E dt \in {cycle.stamp - last_icp_time_} :
       cycle' = [cycle EXCEPT !.dt = dt, !.pred = PredSources(dt)]
  /\ last_used_odom_pose_' = NextUsedOdom
  /\ last_used_imu_orientation_' = NextUsedImu
  /\ mutex_' = IF cfg.use_tf_ THEN mutex_ ELSE ScopedUnlock(mutex_, "scan")
  /\ Goto("scan", ScanFlow("gp_read"))
  /\ UNCHANGED <<bldVars, odom_hist, envVars, cueVars, staticVars, poseVars, ldVars, outbox>>

\* getPrediction: waitForTransform / lookupTransform come back, and the return
T_GpLookup ==
  /\ pc["scan"] = "gp_wait"
  /\ \E lookup \in TfResults :
       cycle' = [cycle EXCEPT !.tf = lookup, !.pred = PredTf(cycle.pred, lookup)]
  /\ mutex_' = ScopedUnlock(mutex_, "scan")
  /\ Goto("scan", ScanFlow("gp_wait"))
  /\ UNCHANGED <<bldVars, odom_hist, envVars, cueVars, usedVars, staticVars, poseVars, ldVars, outbox>>

\* processScan after getPrediction, to the return of the callback
T_Icp ==
  /\ pc["scan"] = "icp"
  /\ \E sol \in scene.icp :
     \E r \in {ProcessScan(prev_ldp_scan_, ld_alive, base_from_laser_, laser_from_base_,
                           cycle.curr, cycle.stamp, cycle.pred, sol)} :
       /\ input_' = r.input
       /\ output_' = r.output
       /\ last_base_in_fixed_' = r.last_base
       /\ keyframe_base_in_fixed_' = r.keyframe
       /\ prev_ldp_scan_' = r.prev
       /\ ld_alive' = r.alive
       /\ last_icp_time_' = r.lit
       /\ outbox' = r.outbox
       /\ cycle' = [cycle EXCEPT !.icp = TRUE, !.meas = r.meas]
  /\ Goto("scan", ScanFlow("icp"))
  /\ UNCHANGED <<bldVars, odom_hist, envVars, cueVars, usedVars, staticVars, ld_count, mutex_>>

NextThreads ==
  \/ StaticTfPublished
  \/ T_ImuLock
  \/ T_ImuWrite
  \/ T_ImuFirst
  \/ T_OdomLock
  \/ T_OdomWrite
  \/ T_OdomFirst
  \/ T_VelLock
  \/ T_VelWrite
  \/ T_VelFlag
  \/ T_ScanBegin
  \/ T_GpLock
  \/ T_GpRead
  \/ T_GpLookup
  \/ T_Icp

InitThreads == InitRun(ThreadRuns) /\ NoBuilder /\ NoHistory

SpecThreads == InitThreads /\ [][NextThreads]_vars

\* ------------------------------- the builders on their own (SpecBuilders)

\* One run of the pipeline, which stays as constructed.
BuilderRuns ==
  {[cfg |-> InitParams(FALSE, FALSE, FALSE, FALSE, FALSE, <<1, 1>>, {"pose2D", "tf"}),
    scene |-> [icp |-> FewIcpResults, static |-> OneStaticTf]]}

\* A range reading or a cloud arrives.
InitBuilders ==
  /\ InitRun(BuilderRuns)
  /\ NoHistory
  /\ built = NoBuilt
  /\ \/ \E msg \in ScanMsgs :
          reading = [kind |-> "scan", scan |-> msg, cloud |-> [points |-> <<>>]]
     \/ \E cloud \in Clouds :
          reading = [kind |-> "cloud", scan |-> ScanMsg(<<>>), cloud |-> cloud]

\* laserScanToLDP(scan_msg, curr_ldp_scan)
LaserScanBuilt ==
  /\ reading.kind = "scan" /\ ~built.done
  /\ \E out \in LaserScanToLDP(reading.scan) : built' = out
  /\ UNCHANGED <<envVars, cueVars, usedVars, staticVars, poseVars, ldVars, obsVars,
                 thrVars, reading, odom_hist>>

\* PointCloudToLDP(cloud, curr_ldp_scan)
PointCloudBuilt ==
  /\ reading.kind = "cloud" /\ ~built.done
  /\ \E out \in PointCloudToLDP(reading.cloud) : built' = out
  /\ UNCHANGED <<envVars, cueVars, usedVars, staticVars, poseVars, ldVars, obsVars,
                 thrVars, reading, odom_hist>>

NextBuilders ==
  \/ LaserScanBuilt
  \/ PointCloudBuilt

SpecBuilders == InitBuilders /\ [][NextBuilders]_vars

\* ------------------------------------------------------------- properties

SqNorm(d) == d.x * d.x + d.y * d.y

\* C1: at the end of every processed reading the current point set has become
\* the reference if and only if the measured base-frame offset of the cycle
\* (identity when the match failed) has |heading| > kf_dist_angular_ or
\* x*x + y*y > kf_dist_linear_^2; an offset on a threshold does not promote.
C1_PromotionIffOverThreshold ==
  cycle.icp =>
    /\ ~output_.valid => cycle.meas = Identity
    /\ (prev_ldp_scan_ = cycle.curr) <=>
         \/ Fabs(GetYaw(cycle.meas)) > cfg.kf_dist_angular_
         \/ SqNorm(cycle.meas) > cfg.kf_dist_linear_ * cfg.kf_dist_linear_

\* A valid match whose offset lies exactly on the linear threshold, not promoted.
C1_Witness ==
  /\ cycle.icp /\ output_.valid
  /\ cfg.kf_dist_linear_ > 0
  /\ SqNorm(cycle.meas) = cfg.kf_dist_linear_ * cfg.kf_dist_linear_
  /\ Fabs(GetYaw(cycle.meas)) <= cfg.kf_dist_angular_
  /\ prev_ldp_scan_ # cycle.curr

\* What C2 says of a cycle whose match failed: nothing published, the
\* reference point set and the keyframe pose as they were on entry.
FailedCycleKeepsKeyframe ==
  (ReadingStep /\ cycle'.icp /\ ~output_'.valid) =>
    /\ outbox' = {}
    /\ prev_ldp_scan_' = input_'.laser_ref
    /\ keyframe_base_in_fixed_' = keyframe_base_in_fixed_

\* C2 as stated: for every configuration of the thresholds, a cycle whose
\* match failed publishes nothing and leaves the keyframe unchanged.
C2_Original == [][FailedCycleKeepsKeyframe]_vars

\* C2 amended: the same for every configuration whose angular threshold is
\* not negative (any linear threshold, which enters squared).
C2_FailedCycleNoOutputNoPromotion ==
  [][cfg.kf_dist_angular_ >= 0 => FailedCycleKeepsKeyframe]_vars

\* A failed cycle, after the platform has moved away from the keyframe.
C2_Witness ==
  /\ cycle.icp /\ ~output_.valid
  /\ cfg.kf_dist_angular_ >= 0
  /\ nreadings >= 2
  /\ last_base_in_fixed_ # keyframe_base_in_fixed_
  /\ prev_ldp_scan_ = input_.laser_ref

\* C3: with velocity, odometry and frame-lookup enabled and all delivering
\* (a velocity and an odometry sample received, the lookup successful), in
\* any state of the orientation source, getPrediction returns the lookup
\* result, translation and rotation.
C3_LookupOverridesAll ==
  (/\ cycle.icp
   /\ cfg.use_vel_ /\ cfg.use_odom_ /\ cfg.use_tf_
   /\ received_vel_ /\ received_odom_
   /\ cycle.tf.ok)
  => cycle.pred = cycle.tf.t

\* All four sources delivering in a cycle after the first.
C3_Witness ==
  /\ cycle.icp /\ ~cycle.init
  /\ cfg.use_vel_ /\ cfg.use_odom_ /\ cfg.use_tf_ /\ cfg.use_imu_
  /\ received_vel_ /\ received_odom_ /\ received_imu_
  /\ latest_imu_msg_.yaw # 1
  /\ cycle.tf.ok
  /\ cycle.pred = cycle.tf.t

\* C4: a reading that arrives before initialization while the static lookup
\* fails is dropped: still uninitialized, no reference installed, no point set
\* built, solver not invoked, nothing published, poses and last_icp_time_
\* unchanged.
C4_FailedStaticLookupDropsReading ==
  [][(ReadingStep /\ ~initialized_ /\ ~tf_static.ok) =>
       /\ ~initialized_'
       /\ cycle'.skip /\ ~cycle'.icp
       /\ outbox' = {}
       /\ UNCHANGED <<prev_ldp_scan_, ld_alive, ld_count, input_, output_,
                      last_base_in_fixed_, keyframe_base_in_fixed_, last_icp_time_,
                      base_from_laser_, laser_from_base_>>]_vars

\* A second reading dropped in a row.
C4_Witness ==
  /\ cycle.skip /\ ~initialized_
  /\ nreadings >= 2 /\ static_queries = nreadings
  /\ prev_ldp_scan_ = 0 /\ ld_alive = {}

\* C5: once initialized, always initialized; the static lookup is not issued
\* again and the cached base_from_laser_ / laser_from_base_ pair is kept.
C5_InitializedIsStable ==
  [][initialized_ =>
       /\ initialized_'
       /\ static_queries' = static_queries
       /\ base_from_laser_' = base_from_laser_
       /\ laser_from_base_' = laser_from_base_]_vars

\* A later reading whose match failed, processed in Steady state.
C5_Witness ==
  /\ initialized_ /\ cycle.icp /\ ~cycle.init /\ ~output_.valid
  /\ static_queries < nreadings
  /\ laser_from_base_ = Inverse(base_from_laser_)

\* C6: while uninitialized every reading issues the static lookup again; the
\* reading on which the lookup succeeds initializes the pipeline and is itself
\* processed (solver invoked); and if the static transform is available while
\* readings keep arriving, the pipeline eventually is initialized.
C6_RetryUntilResolved ==
  /\ [][(ReadingStep /\ ~initialized_) => static_queries' = static_queries + 1]_vars
  /\ [][(ReadingStep /\ ~initialized_ /\ tf_static.ok) =>
          /\ initialized_'
          /\ cycle'.init /\ ~cycle'.skip /\ cycle'.icp
          /\ cycle'.curr \in 1..ld_count'
          /\ input_'.laser_sens = cycle'.curr]_vars
  /\ (tf_static.ok /\ nreadings < MaxReadings) ~> initialized_

\* Initialized by a reading that followed a dropped one, and processed.
C6_Witness ==
  /\ initialized_ /\ cycle.init /\ cycle.icp
  /\ static_queries >= 2 /\ static_queries = nreadings

\* C7: with use_tf_ on and the fused lookup failing, getPrediction returns the
\* estimate of the base case, velocity, odometry and imu steps, and the cycle
\* goes on: solver invoked on the current point set, keyframe decision taken,
\* last_icp_time_ advanced.
C7_FailedLookupFallsBack ==
  [][(ReadingStep /\ cfg.use_tf_ /\ ~cycle'.skip /\ ~cycle'.tf.ok) =>
       LET dt == IF initialized_ THEN cycle'.stamp - last_icp_time_ ELSE 0
           vel == IF cfg.use_vel_
                  THEN [x |-> dt * latest_vel_msg_.linear[1],
                        y |-> dt * latest_vel_msg_.linear[2],
                        a |-> (dt * latest_vel_msg_.angular) % 4]
                  ELSE Identity
           odo == IF cfg.use_odom_ /\ received_odom_
                  THEN Mul(Inverse(last_used_odom_pose_),
                           [x |-> latest_odom_msg_.position[1],
                            y |-> latest_odom_msg_.position[2],
                            a |-> latest_odom_msg_.orientation])
                  ELSE vel
           imu == IF cfg.use_imu_ /\ received_imu_
                  THEN [x |-> odo.x, y |-> odo.y,
                        a |-> (latest_imu_msg_.yaw + 4 - last_used_imu_orientation_) % 4]
                  ELSE odo
       IN  /\ cycle'.tf.asked
           /\ cycle'.pred = imu
           /\ cycle'.icp
           /\ input_'.laser_sens = cycle'.curr
           /\ last_icp_time_' = cycle'.stamp
           /\ (prev_ldp_scan_' = cycle'.curr) <=>
                \/ Fabs(GetYaw(cycle'.meas)) > cfg.kf_dist_angular_
                \/ SqNorm(cycle'.meas) > cfg.kf_dist_linear_ * cfg.kf_dist_linear_]_vars

\* A failed lookup in a cycle whose odometry and imu steps gave a motion.
C7_Witness ==
  /\ cycle.icp /\ ~cycle.init
  /\ cfg.use_tf_ /\ cycle.tf.asked /\ ~cycle.tf.ok
  /\ cfg.use_odom_ /\ cfg.use_imu_
  /\ cycle.pred.x # 0 /\ cycle.pred.a # 0

CueThreads == {"imu", "odom", "vel"}

\* The reading thread is at a statement that reads the prediction-source state.
PipelineReads ==
  \/ pc["scan"] = "gp_read"
  \/ pc["scan"] = "icp" /\ cfg.add_imu_roll_pitch_ /\ cfg.use_imu_

\* C8 as stated: a cue callback past its lock statement holds mutex_, the
\* pipeline holds it where it reads the prediction-source state, and so no
\* cue callback is part-way through its update while the pipeline reads.
C8_Original ==
  /\ \A t \in CueThreads : pc[t] # "idle" => mutex_ = t
  /\ PipelineReads => mutex_ = "scan"
  /\ ~(PipelineReads /\ \E t \in CueThreads : pc[t] # "idle")

\* C9: while the reading thread is blocked in the fused lookup it does not
\* hold mutex_, and the lock statement of every subscribed cue callback that
\* arrives can be passed.
C9_LookupWaitsWithoutGuard ==
  pc["scan"] = "gp_wait" =>
    /\ mutex_ # "scan"
    /\ (cfg.use_imu_ /\ pc["imu"] = "idle") => ENABLED T_ImuLock
    /\ (cfg.use_odom_ /\ pc["odom"] = "idle") => ENABLED T_OdomLock
    /\ (cfg.use_vel_ /\ pc["vel"] = "idle") => ENABLED T_VelLock

\* A cue callback has stored its sample while the lookup is waiting.
C9_Witness ==
  /\ pc["scan"] = "gp_wait"
  /\ \E t \in CueThreads : pc[t] \in {"first", "flag"}
  /\ \/ latest_odom_msg_ # NoOdomMsg
     \/ latest_imu_msg_ # NoImuMsg
     \/ latest_vel_msg_ # NoVelMsg

\* C10: the steps in progress belong to the latest reading delivered, and a
\* reading is delivered only when the callback has returned, the previous
\* reading being fully processed: solver run, keyframe decided, the point set
\* that is not the reference freed, last_icp_time_ advanced.
C10_NoOverlappingRegistrations ==
  /\ [](pc["scan"] # "idle" =>
          /\ cycle.stamp = clock /\ ~cycle.skip /\ ~cycle.icp
          /\ cycle.curr \in ld_alive /\ input_.laser_sens = cycle.curr)
  /\ [][ReadingStep =>
          /\ pc["scan"] = "idle"
          /\ (nreadings > 0 /\ ~cycle.skip) =>
               /\ cycle.icp
               /\ last_icp_time_ = cycle.stamp
               /\ ld_alive = {prev_ldp_scan_}]_vars

\* The second reading at the solver call, the first one completed.
C10_Witness ==
  /\ pc["scan"] = "icp" /\ nreadings >= 2
  /\ cycle.stamp = clock /\ last_icp_time_ < clock
  /\ Cardinality(ld_alive) = 2

\* C11: every point set built during a reading is, when the reading callback
\* returns, the reference or freed; in Steady state exactly one point set is
\* alive and it is the reference, before initialization none is alive.
C11_PointSetsPromotedOrFreed ==
  /\ [](IF initialized_
        THEN prev_ldp_scan_ \in 1..ld_count /\ ld_alive = {prev_ldp_scan_}
        ELSE ld_alive = {} /\ ld_count = 0)
  /\ [][ReadingStep =>
          \A ldp \in (ld_count + 1)..ld_count' :
             ldp = prev_ldp_scan_' \/ ldp \notin ld_alive']_vars

\* Three readings processed: a promoting cycle, then a failed one that frees
\* its own point set.
C11_Witness ==
  /\ initialized_ /\ nreadings = 3 /\ ld_count = 4
  /\ cycle.icp /\ ~output_.valid
  /\ prev_ldp_scan_ \in {2, 3}
  /\ ld_alive = {prev_ldp_scan_}

\* The builder has returned a point set to its caller.
Returned == built.done /\ ~built.crashed

\* C12 as stated: for every range reading and every cloud, the empty ones
\* included, the builder returns a point set and no access leaves the input
\* or the output arrays.
C12_Original == built.done => (~built.oob /\ ~built.crashed)

\* Samples of a cloud with a NaN coordinate.
NanSamples(points) == {i \in 1..Len(points) : IsNan(points[i].x) \/ IsNan(points[i].y)}

\* The cloud with its NaN samples replaced by an ordinary sample beyond
\* cloud_range_max_.
ReplaceNaN(points) ==
  [i \in 1..Len(points) |-> IF i \in NanSamples(points) THEN FarPoint ELSE points[i]]

\* C13 as stated: a cloud with one NaN sample, at any position, gives a
\* warning and a point set with the points, and their validity, of the same
\* cloud with an ordinary out-of-range sample in the place of the NaN one.
C13_Original ==
  (/\ Returned /\ reading.kind = "cloud"
   /\ Cardinality(NanSamples(reading.cloud.points)) = 1)
  => \A ref \in PointCloudToLDP([points |-> ReplaceNaN(reading.cloud.points)]) :
       /\ built.warns = 1
       /\ built.ldp.nrays = ref.ldp.nrays
       /\ \A i \in 1..built.ldp.nrays : built.ldp.valid[i] = ref.ldp.valid[i]

\* C14: a range reading gives one point per sample, in input order, valid
\* exactly when range_min < r < range_max (a NaN range and a range on a bound
\* are invalid), a valid point carrying its range; a cloud gives one point
\* per kept sample, valid exactly when cloud_range_min_ < r < cloud_range_max_.
C14_ValidIffStrictlyInRange ==
  Returned =>
    IF reading.kind = "scan"
    THEN LET m == reading.scan
         IN  /\ built.ldp.nrays = Len(m.ranges)
             /\ \A i \in 1..Len(m.ranges) :
                  /\ built.ldp.valid[i] \in {0, 1}
                  /\ (built.ldp.valid[i] = 1) <=>
                       /\ ~m.ranges[i].nan
                       /\ m.ranges[i].v > m.range_min.v
                       /\ m.ranges[i].v < m.range_max.v
                  /\ built.ldp.valid[i] = 1 => built.ldp.readings[i] = m.ranges[i]
                  /\ built.ldp.theta[i] = Num(i - 1)
    ELSE /\ built.ldp.nrays = Len(built.kept)
         /\ \A i \in 1..Len(built.kept) :
              LET p == built.kept[i]
                  r2 == p.x.v * p.x.v + p.y.v * p.y.v
              IN  /\ built.ldp.valid[i] \in {0, 1}
                  /\ (built.ldp.valid[i] = 1) <=>
                       /\ ~p.x.nan /\ ~p.y.nan
                       /\ r2 > cloud_range_min_.v * cloud_range_min_.v
                       /\ r2 < cloud_range_max_.v * cloud_range_max_.v

\* A range reading with a sample on each bound around a valid one.
C14_Witness ==
  /\ Returned /\ reading.kind = "scan"
  /\ reading.scan.ranges = <<Num(1), Num(2), Num(3)>>
  /\ built.ldp.valid = <<0, 1, 0>>

\* C15: the downsampling of a cloud keeps the first sample, and two
\* consecutive kept points are farther apart than cloud_res_ (strictly).
C15_KeptPointsFartherThanResolution ==
  (Returned /\ reading.kind = "cloud") =>
    /\ Len(built.kept) >= 1
    /\ ~built.oob => built.kept[1] = reading.cloud.points[1]
    /\ \A i \in 1..(Len(built.kept) - 1) :
         LET p == built.kept[i]
             q == built.kept[i + 1]
         IN  /\ ~p.x.nan /\ ~p.y.nan /\ ~q.x.nan /\ ~q.y.nan
             /\ (p.x.v - q.x.v) * (p.x.v - q.x.v) + (p.y.v - q.y.v) * (p.y.v - q.y.v)
                  > cloud_res_.v * cloud_res_.v

\* A sample exactly at the resolution from the last kept point is dropped,
\* the next one beyond it is kept.
C15_Witness ==
  /\ Returned /\ reading.kind = "cloud"
  /\ reading.cloud.points = <<Pt(Num(0), Num(0)), Pt(Num(1), Num(0)), Pt(Num(2), Num(0))>>
  /\ built.kept = <<Pt(Num(0), Num(0)), Pt(Num(2), Num(0))>>

\* C18 as stated: in every point set returned, every point has cluster -1 and
\* every point that is not valid has the range -1, the points made from NaN
\* samples included.
C18_Original ==
  Returned =>
    \A i \in 1..built.ldp.nrays :
      /\ built.ldp.cluster[i] = -1
      /\ built.ldp.valid[i] # 1 => built.ldp.readings[i] = Num(-1)

\* The second processed reading of a run is delivered, and its match is valid.
SecondReadingStep ==
  /\ ReadingStep /\ cycle.icp /\ cycle.init
  /\ cycle'.icp /\ output_'.valid

\* What C16 expects of that reading, T being the solver's offset: the pose
\* and every published pose are identity * (base_from_laser_ * T *
\* laser_from_base_), and an offset over the linear threshold promotes.
IdentityKeyframeOutcome ==
  LET T == [x |-> output_'.x[1], y |-> output_'.x[2], a |-> output_'.x[3] % 4]
      m == Mul(Mul(base_from_laser_', T), laser_from_base_')
  IN  /\ last_base_in_fixed_' = Mul(Identity, m)
      /\ outbox' # {}
      /\ \A msg \in outbox' :
           /\ msg.pose.x = m.x /\ msg.pose.y = m.y /\ msg.pose.a = m.a
           /\ msg.stamp = cycle'.stamp
      /\ SqNorm(m) > cfg.kf_dist_linear_ * cfg.kf_dist_linear_ =>
           /\ keyframe_base_in_fixed_' = last_base_in_fixed_'
           /\ prev_ldp_scan_' = cycle'.curr

\* C16 as stated: two readings whose solver result is the same valid offset T.
C16_Original ==
  [][(SecondReadingStep /\ output_.valid /\ output_.x = output_'.x)
       => IdentityKeyframeOutcome]_vars

\* C16 amended: the keyframe pose is still the identity when the second
\* reading is processed (the cycle of the first reading did not move it).
C16_SecondReadingFromIdentityKeyframe ==
  [][(SecondReadingStep /\ keyframe_base_in_fixed_ = Identity)
       => IdentityKeyframeOutcome]_vars

\* Second reading, offset (1, 1) in the laser frame, the laser mounted at
\* (1, 0) a quarter turn off: the pose is the base-frame offset, promoted.
C16_Witness ==
  /\ nreadings = 2 /\ cycle.icp /\ ~cycle.init /\ output_.valid
  /\ output_.x = <<1, 1, 0>>
  /\ base_from_laser_ = Tf(1, 0, 1)
  /\ last_base_in_fixed_ = Tf(-1, 1, 0)
  /\ keyframe_base_in_fixed_ = last_base_in_fixed_
  /\ prev_ldp_scan_ = cycle.curr

\* A processed reading is delivered in a run with a keyframe threshold of 0.
ZeroThresholdCycle ==
  /\ ReadingStep /\ cycle'.icp
  /\ cfg.kf_dist_linear_ = 0 \/ cfg.kf_dist_angular_ = 0

OdomCycle == ReadingStep /\ ~cycle'.skip /\ cfg.use_odom_ /\ received_odom_

\* C20 as stated: no odometry sample is the baseline of more than one cycle.
C20_Original == odom_hist.most <= 1

\* C20 amended: a sample is the baseline of at most one cycle in which a
\* later sample is held: that cycle makes the later sample the baseline.
\* While no later sample has arrived the baseline is the latest sample
\* itself, the delta of a cycle is the identity and the sample remains the
\* baseline of the next cycle.
C20_BaselineAdvancesToLatest ==
  /\ []((odom_hist.on /\ received_odom_ /\ ~odom_hist.fresh)
          => last_used_odom_pose_ = PoseMsgToTF(latest_odom_msg_))
  /\ [][OdomCycle =>
          /\ last_used_odom_pose_' = PoseMsgToTF(latest_odom_msg_)
          /\ ~odom_hist'.fresh
          /\ odom_hist.fresh => odom_hist'.uses = 0
          /\ ~odom_hist.fresh =>
               /\ cycle'.pred = Identity
               /\ odom_hist'.uses = odom_hist.uses + 1]_vars

\* A cycle has taken a later sample as the new baseline, with a delta that
\* is a motion, after a cycle that had no later sample.
C20_Witness ==
  /\ odom_hist.on /\ cycle.icp /\ ~cycle.init
  /\ received_odom_ /\ ~odom_hist.fresh
  /\ odom_hist.uses = 0 /\ odom_hist.most = 2
  /\ cycle.pred # Identity

\* A reading whose match was valid, the solver computing the covariance.
CovCycle ==
  /\ ReadingStep
  /\ cycle'.icp
  /\ output_'.valid
  /\ cfg.do_compute_covariance

\* C21: when the solver computes the covariance and the match is valid, the
\* position block of the published covariance is the solver's position block
\* rotated by the heading of the keyframe pose, whatever the static
\* sensor-to-base offset, and the heading variance is the solver's.
C21_Original ==
  [][CovCycle =>
       \A msg \in outbox' :
         LET rotation == Rotation2D(GetYaw(keyframe_base_in_fixed_))
             block == <<<<output_'.cov_x_m[1][1], output_'.cov_x_m[1][2]>>,
                        <<output_'.cov_x_m[2][1], output_'.cov_x_m[2][2]>>>>
         IN  /\ msg.cov.xy = MatMul(MatMul(rotation, block), Transpose(rotation))
             /\ msg.cov.yaw = output_'.cov_x_m[3][3]]_vars

\* A reading that ran a cycle of processScan.
CycleStep == ReadingStep /\ ~cycle'.skip

\* C22: the keyframe changes only by promotion.  A cycle either destroys the
\* reference it matched against, makes its own point set the reference and
\* sets the keyframe pose to the platform pose it computed, or destroys its
\* own point set and leaves the reference and the keyframe pose alone; every
\* other step (cue callbacks, dropped readings) leaves both alone.  The
\* reference a cycle matches against is the one the previous step left,
\* except in the initializing callback, which builds it.
C22_KeyframeChangesOnlyByPromotion ==
  [][IF CycleStep
     THEN /\ ~cycle'.init => input_'.laser_ref = prev_ldp_scan_
          /\ \/ /\ input_'.laser_ref \notin ld_alive'
                /\ cycle'.curr \in ld_alive'
                /\ prev_ldp_scan_' = cycle'.curr
                /\ keyframe_base_in_fixed_' = last_base_in_fixed_'
             \/ /\ cycle'.curr \notin ld_alive'
                /\ input_'.laser_ref \in ld_alive'
                /\ prev_ldp_scan_' = input_'.laser_ref
                /\ keyframe_base_in_fixed_' = keyframe_base_in_fixed_
     ELSE /\ prev_ldp_scan_' = prev_ldp_scan_
          /\ keyframe_base_in_fixed_' = keyframe_base_in_fixed_]_vars

\* A second promotion has moved the keyframe pose a second time, a motion cue
\* having arrived in between.
C22_Witness ==
  /\ nreadings = 3 /\ cycle.icp /\ output_.valid
  /\ prev_ldp_scan_ = cycle.curr
  /\ keyframe_base_in_fixed_ = last_base_in_fixed_
  /\ keyframe_base_in_fixed_ = Tf(-2, 2, 0)
  /\ received_odom_

\* The offset of the platform pose from the keyframe pose.
KeyframeOffset == Mul(Inverse(keyframe_base_in_fixed_), last_base_in_fixed_)

\* C23: with non-negative thresholds, after every reading the offset of the
\* platform pose from the keyframe pose is within the promotion thresholds
\* (|heading| <= angular threshold, x*x + y*y <= linear threshold squared),
\* and it is the identity right after a promotion.
C23_OffsetWithinThresholds ==
  /\ []((cfg.kf_dist_linear_ >= 0 /\ cfg.kf_dist_angular_ >= 0) =>
          /\ Fabs(GetYaw(KeyframeOffset)) <= cfg.kf_dist_angular_
          /\ SqNorm(KeyframeOffset) <= cfg.kf_dist_linear_ * cfg.kf_dist_linear_)
  /\ [][(CycleStep /\ prev_ldp_scan_' = cycle'.curr) =>
          Mul(Inverse(keyframe_base_in_fixed_'), last_base_in_fixed_') = Identity]_vars

\* After a promotion, a valid match inside the thresholds has moved the
\* platform away from the keyframe without promoting.
C23_Witness ==
  /\ nreadings = 3 /\ cycle.icp /\ output_.valid
  /\ cfg.kf_dist_linear_ = 1 /\ cfg.kf_dist_angular_ = 1
  /\ keyframe_base_in_fixed_ # Identity
  /\ KeyframeOffset # Identity
  /\ prev_ldp_scan_ # cycle.curr

\* C24: the odometry deltas telescope.  After every cycle that computes an
\* odometry delta, the in-order composition of the deltas computed so far is
\* the inverse of the first odometry pose received composed with the
\* odometry pose that is the latest at that cycle, whether or not the delta
\* is overridden by the frame lookup and whether or not the match is valid.
C24_OdomDeltasTelescope ==
  [][OdomCycle =>
       odom_hist'.deltas =
         Mul(Inverse(odom_hist'.first), PoseMsgToTF(latest_odom_msg_))]_vars

\* Three readings with odometry, a motion accumulated, the last delta
\* overridden by the frame lookup and the last match failed.
C24_Witness ==
  /\ odom_hist.on /\ nreadings = 3 /\ received_odom_
  /\ cfg.use_tf_ /\ cycle.tf.ok /\ cycle.icp /\ ~output_.valid
  /\ odom_hist.deltas # Identity
  /\ cycle.pred # odom_hist.deltas

\* The reading that takes the pipeline from uninitialized to initialized.
InitializingStep == ReadingStep /\ ~initialized_ /\ initialized_'

\* C25: the initializing reading is matched against itself in the same
\* callback: two point sets are built in that callback (the reference and
\* the current one), the solver is run once on the two, the elapsed time of
\* the velocity integration is zero (so a velocity-only prediction is the
\* identity), and a valid match publishes a pose stamped with that reading.
C25_FirstReadingMatchedAgainstItself ==
  [][InitializingStep =>
       /\ cycle'.init /\ ~cycle'.skip /\ cycle'.icp
       /\ ld_count' = ld_count + 2
       /\ input_'.laser_ref = ld_count + 1
       /\ input_'.laser_sens = ld_count + 2
       /\ cycle'.dt = 0
       /\ (cfg.use_vel_ /\ ~UseOdom /\ ~UseImu /\ ~cycle'.tf.ok) => cycle'.pred = Identity
       /\ IF output_'.valid
          THEN /\ {msg.topic : msg \in outbox'} = cfg.publish_
               /\ \A msg \in outbox' :
                    /\ msg.stamp = cycle'.stamp
                    /\ Tf(msg.pose.x, msg.pose.y, msg.pose.a) = last_base_in_fixed_'
          ELSE outbox' = {}]_vars

\* The first reading was dropped, the second one initialized the pipeline
\* with a velocity cue held, and its match against itself was valid.
C25_Witness ==
  /\ nreadings = 2 /\ cycle.init /\ cycle.icp /\ output_.valid
  /\ static_queries = 2
  /\ cfg.use_vel_ /\ received_vel_
  /\ cycle.dt = 0 /\ ld_count = 2
  /\ outbox # {}

\* C26: the lifecycle of the point sets is memory safe.  The reference
\* handle always designates a live point set; every solver call receives two
\* distinct live point sets, the current one built in that callback (so the
\* handle of a destroyed current point set left in the solver input is
\* overwritten before the call); the one point set destroyed at the end of a
\* cycle is live when it is destroyed; and no other step destroys any.
C26_PointSetLifecycleSafe ==
  /\ [](initialized_ => prev_ldp_scan_ \in ld_alive)
  /\ [][IF CycleStep
        THEN LET fresh == (ld_count + 1)..ld_count'
                 live == ld_alive \cup fresh
                 freed == IF prev_ldp_scan_' = cycle'.curr
                          THEN input_'.laser_ref ELSE cycle'.curr
             IN  /\ input_'.laser_ref \in live
                 /\ input_'.laser_sens \in fresh
                 /\ input_'.laser_ref # input_'.laser_sens
                 /\ freed \in live
                 /\ ld_alive' = live \ {freed}
        ELSE ld_alive' = ld_alive]_vars

\* After two promotions a cycle destroyed its own point set: the solver
\* input still holds the handle of that destroyed point set.
C26_Witness ==
  /\ nreadings = 3 /\ cycle.icp /\ ld_count = 4
  /\ prev_ldp_scan_ = 3 /\ ld_alive = {3}
  /\ input_.laser_sens = 4
  /\ input_.laser_sens \notin ld_alive

====
